---- MODULE Spec2Model ----
(***************************************************************************)
(* Model of the LED / digital-event synchronisation engine:                *)
(*   syncing/handshake.py      HandshakeDetector.find                      *)
(*   syncing/anomalies.py      AnomalyHandler.detect_anomalies             *)
(*   syncing/fix_anomalies.py  AnomalyFixer.fix                            *)
(*   syncing/utils.py          trim_to_handshake_windows,                  *)
(*                             trim_with_index_mapping                     *)
(*   run_sync.py               main: the per-file loop and the summary     *)
(*                                                                         *)
(* Scaling.  The program works with a 32-bit timer (2**32) and casts       *)
(* intervals to np.int32.  TLC's integers are 32-bit themselves, so the    *)
(* word width is the definition TimerBits: Wrap = 2^TimerBits stands for   *)
(* 2**32 and [-HalfWrap, HalfWrap) for the np.int32 range.  Timestamps are *)
(* int64 in the program and plain integers here (no value of the model     *)
(* comes near the int64 range).                                            *)
(*                                                                         *)
(* Indices are 0-based as in the source; a Python sequence s is the TLA+   *)
(* sequence whose element k+1 is s[k].  Ranges are pairs <<begin, end>>,   *)
(* half-open over interval indices.                                        *)
(*                                                                         *)
(* Audit-only columns of the correction log that nothing reads back        *)
(* (linetype, handshake_phase, the delta_* diagnostics) are not carried.   *)
(***************************************************************************)
EXTENDS Integers, Sequences, FiniteSets, TLC

\* ------------------------------------------------------------------ bounds
TimerBits == 4
MaxDiffs == 5
MaxDetLen == 5
MaxEvents == 4
MaxAnomalies == 2
MaxMea == 5
MaxRaw == 2
MaxNormLen == 4
MaxTrimLen == 5
MaxFiles == 3

Wrap == 2 ^ TimerBits
HalfWrap == 2 ^ (TimerBits - 1)

\* ------------------------------------------------------------ numpy helpers
\* ndarray.astype(np.int32): two's-complement truncation to the word
ToInt32(x) == ((x + HalfWrap) % Wrap) - HalfWrap

\* int32 - int32 on arrays wraps
Int32Sub(a, b) == ToInt32(a - b)

\* np.abs on int32: the most negative value has no positive counterpart
Int32Abs(a) == ToInt32(IF a < 0 THEN 0 - a ELSE a)

\* np.diff(timestamps) on int64
NpDiff(ts) == [k \in 1..(IF Len(ts) = 0 THEN 0 ELSE Len(ts) - 1) |-> ts[k + 1] - ts[k]]

\* range(a, b) as a set
Range(a, b) == a..(b - 1)

VARIABLES
    timestamps,          \* find(timestamps, ...)
    tolerance,           \* find(..., tolerance)
    start_sequences,     \* cfg.handshake_start_sequences, in dict order
    stop_sequences,      \* cfg.handshake_stop_sequences, in dict order
    find_status,         \* "idle" | "pending" | "returned" | "ValueError" | "HandshakeError"
    start_indices,       \* matches of the start table, in detection order
    stop_indices,        \* matches of the stop table, in detection order
    handshake_pairs,     \* returned pairs <<start_range, stop_range>>
    start_names_sorted,
    stop_names_sorted,
    \* AnomalyHandler and detect_anomalies
    expected_diff,       \* self.expected_diff
    threshold,           \* self.threshold
    pause_threshold,     \* self.pause_threshold
    stim_led_ts,         \* the timestamps detect_anomalies is called with
    diffs,               \* the interval array, corrected in place
    det_i,               \* the loop index i
    anomalies,           \* the list of (index, anomaly_type) built so far
    det_pc,              \* "idle" | "pending" | "loop" | "returned"
    \* AnomalyFixer and fix
    self_anomalies,      \* self.anomalies: list of (original index, anomaly_type)
    call_kwargs,         \* the keyword names the caller passes to fix
    raw_ts,              \* arduino_ts as the caller passed it (before the in-place fix)
    arduino_ts,          \* the caller's array, normalised in place
    mea_ts,
    overflow_info,       \* per index <<overflow_flag, offset>>
    corrected_ts,
    corrected_patterns,  \* each pattern stands as the index it was read from
    correction_records,
    d_e_index,           \* the cursor into mea_ts
    fix_i,               \* the index the walk is at (the failing index in the handler)
    success,
    written,             \* the artifacts written
    fix_pc,              \* "idle" | "call" | "walk" | "except" | "save" | "returned" | "TypeError"
    \* syncing/utils.py: the two trimming functions, called on the same arguments
    trim_ts,             \* the timestamps argument
    trim_pairs,          \* the handshake_pairs argument
    trimmed_windows,     \* what trim_to_handshake_windows returns
    trimmed,             \* what trim_with_index_mapping returns, first component
    index_map,           \* what trim_with_index_mapping returns, second component
    trim_pc,             \* "idle" | "pending" | "returned"
    \* run_sync.py: main
    files,               \* os.listdir(cfg.path_h5_dir): per name, whether it ends in ".h5"
    rec_id_start_set,    \* whether cfg.rec_id_start is truthy
    rec_id_end_set,      \* whether cfg.rec_id_end is truthy
    file_idx,            \* position of the for loop in files
    summary_rows,        \* the rows appended so far
    interrupted,         \* None, or Some(position of the file that was being processed)
    summary_written,     \* None, or Some(rows) once the CSV and JSON hold rows
    main_pc,             \* "idle" | "loop" | "finally" | "done"
    \* syncing/yline_check.py: find_yline_after_start_handshake
    arduino_linetypes,   \* the line-type code of every Arduino event
    yline_pairs,         \* the handshake_pairs argument
    byte_y,              \* cfg.bytes["BYTE_Y"]
    inspected,           \* ts_idx of every pair visited, in pair order
    findings,
    yline_pc             \* "idle" | "pending" | "returned"

findVars == <<timestamps, tolerance, start_sequences, stop_sequences, find_status,
              start_indices, stop_indices, handshake_pairs, start_names_sorted,
              stop_names_sorted>>

detVars == <<expected_diff, threshold, pause_threshold, stim_led_ts, diffs, det_i,
             anomalies, det_pc>>

fixVars == <<self_anomalies, call_kwargs, raw_ts, arduino_ts, mea_ts, overflow_info,
             corrected_ts, corrected_patterns, correction_records, d_e_index, fix_i,
             success, written, fix_pc>>

trimVars == <<trim_ts, trim_pairs, trimmed_windows, trimmed, index_map, trim_pc>>

mainVars == <<files, rec_id_start_set, rec_id_end_set, file_idx, summary_rows,
              interrupted, summary_written, main_pc>>

ylineVars == <<arduino_linetypes, yline_pairs, byte_y, inspected, findings, yline_pc>>

vars == <<findVars, detVars, fixVars, trimVars, mainVars, ylineVars>>

\* ------------------------------------------------- HandshakeDetector.find
\* sorted(table.items(), key=lambda x: -len(x[1])): stable, longest first
RECURSIVE InsertByLen(_, _)
InsertByLen(sorted, p) ==
    IF sorted = <<>> THEN <<p>>
    ELSE IF Len(Head(sorted).seq) >= Len(p.seq)
         THEN <<Head(sorted)>> \o InsertByLen(Tail(sorted), p)
         ELSE <<p>> \o sorted

RECURSIVE SortedByLenDesc(_)
SortedByLenDesc(table) ==
    IF table = <<>> THEN <<>>
    ELSE InsertByLen(SortedByLenDesc(SubSeq(table, 1, Len(table) - 1)), table[Len(table)])

\* np.all(np.abs(sub - seq_arr) <= tolerance) for sub = diffs[i:i+seq_len], diffs being the int32 array d32
MatchesAt(d32, seq, i, tol) ==
    \A j \in 0..(Len(seq) - 1) :
        Int32Abs(Int32Sub(d32[i + j + 1], ToInt32(seq[j + 1]))) <= tol

NoMatches == [indices |-> <<>>, names |-> <<>>, covered |-> {}]

AddMatch(acc, i, pat) ==
    [indices |-> Append(acc.indices, <<i, i + Len(pat.seq)>>),
     names   |-> Append(acc.names, pat.name),
     covered |-> acc.covered \cup Range(i, i + Len(pat.seq))]

\* the stop loop over the offsets of one pattern
RECURSIVE StopScanOffsets(_, _, _, _, _)
StopScanOffsets(d32, pat, tol, i, acc) ==
    IF i >= Len(d32) - Len(pat.seq) + 1 THEN acc
    ELSE IF \E j \in Range(i, i + Len(pat.seq)) : j \in acc.covered
         THEN StopScanOffsets(d32, pat, tol, i + 1, acc)
    ELSE IF MatchesAt(d32, pat.seq, i, tol)
         THEN StopScanOffsets(d32, pat, tol, i + 1, AddMatch(acc, i, pat))
    ELSE StopScanOffsets(d32, pat, tol, i + 1, acc)

RECURSIVE StopScan(_, _, _, _)
StopScan(d32, pats, tol, acc) ==
    IF pats = <<>> THEN acc
    ELSE StopScan(d32, Tail(pats), tol, StopScanOffsets(d32, Head(pats), tol, 0, acc))

\* whether the start loop skips offset i before comparing
StartSkipMut(i, seq_len, covered_start, covered_stop) ==
    \/ i \in covered_start
    \/ i \in covered_stop

StartSkip(i, seq_len, covered_start, covered_stop) ==
    \/ i \in covered_start
    \/ \E j \in Range(i, i + seq_len) : j \in covered_stop

\* the start loop over the offsets of one pattern
RECURSIVE StartScanOffsets(_, _, _, _, _, _)
StartScanOffsets(d32, pat, tol, i, acc, covered_stop) ==
    IF i >= Len(d32) - Len(pat.seq) + 1 THEN acc
    ELSE IF StartSkip(i, Len(pat.seq), acc.covered, covered_stop)
         THEN StartScanOffsets(d32, pat, tol, i + 1, acc, covered_stop)
    ELSE IF MatchesAt(d32, pat.seq, i, tol)
         THEN StartScanOffsets(d32, pat, tol, i + 1, AddMatch(acc, i, pat), covered_stop)
    ELSE StartScanOffsets(d32, pat, tol, i + 1, acc, covered_stop)

RECURSIVE StartScan(_, _, _, _, _)
StartScan(d32, pats, tol, acc, covered_stop) ==
    IF pats = <<>> THEN acc
    ELSE StartScan(d32, Tail(pats), tol,
                   StartScanOffsets(d32, Head(pats), tol, 0, acc, covered_stop),
                   covered_stop)

\* tuple comparison of two ranges, as sorted(..., key=lambda x: x[0]) compares
RangeLess(r, s) == r[1] < s[1] \/ (r[1] = s[1] /\ r[2] < s[2])

RECURSIVE InsertByOffset(_, _)
InsertByOffset(sorted, e) ==
    IF sorted = <<>> THEN <<e>>
    ELSE IF RangeLess(e[1], Head(sorted)[1])
         THEN <<e>> \o sorted
         ELSE <<Head(sorted)>> \o InsertByOffset(Tail(sorted), e)

\* sorted(zip(indices, names), key=lambda x: x[0])
RECURSIVE SortedByOffset(_, _)
SortedByOffset(indices, names) ==
    IF indices = <<>> THEN <<>>
    ELSE InsertByOffset(
             SortedByOffset(SubSeq(indices, 1, Len(indices) - 1),
                            SubSeq(names, 1, Len(names) - 1)),
             <<indices[Len(indices)], names[Len(names)]>>)

\* the pairing test of one zipped pair
PairOkMut(start_range, stop_range) == start_range[2] <= stop_range[1]

PairOk(start_range, stop_range) == start_range[2] < stop_range[1]

\* the pairing loop: the pairs so far, or the error of the first bad pair
RECURSIVE PairUp(_, _, _)
PairUp(start_sorted, stop_sorted, acc) ==
    IF start_sorted = <<>> \/ stop_sorted = <<>> THEN acc
    ELSE IF PairOk(Head(start_sorted)[1], Head(stop_sorted)[1])
         THEN PairUp(Tail(start_sorted), Tail(stop_sorted),
                     [status |-> "returned",
                      pairs  |-> Append(acc.pairs, <<Head(start_sorted)[1], Head(stop_sorted)[1]>>),
                      snames |-> Append(acc.snames, Head(start_sorted)[2]),
                      tnames |-> Append(acc.tnames, Head(stop_sorted)[2])])
         ELSE [status |-> "HandshakeError", pairs |-> <<>>, snames |-> <<>>, tnames |-> <<>>]

\* the count checks between the scans and the pairing
CountsRaiseMut(starts, stops) == starts = <<>> \/ stops = <<>>

CountsRaise(starts, stops) ==
    \/ starts = <<>> \/ stops = <<>>
    \/ Len(starts) # Len(stops)

FindResult(ts, tol, startTable, stopTable) ==
    IF Len(ts) < 2
    THEN [status |-> "ValueError", starts |-> <<>>, stops |-> <<>>,
          pairs |-> <<>>, snames |-> <<>>, tnames |-> <<>>]
    ELSE
      LET d32 == [k \in 1..(Len(ts) - 1) |-> ToInt32(NpDiff(ts)[k])]
          stop  == StopScan(d32, SortedByLenDesc(stopTable), tol, NoMatches)
          start == StartScan(d32, SortedByLenDesc(startTable), tol, NoMatches, stop.covered)
      IN IF CountsRaise(start.indices, stop.indices)
         THEN [status |-> "HandshakeError", starts |-> start.indices, stops |-> stop.indices,
               pairs |-> <<>>, snames |-> <<>>, tnames |-> <<>>]
         ELSE
           LET p == PairUp(SortedByOffset(start.indices, start.names),
                           SortedByOffset(stop.indices, stop.names),
                           [status |-> "returned", pairs |-> <<>>,
                            snames |-> <<>>, tnames |-> <<>>])
           IN [status |-> p.status, starts |-> start.indices, stops |-> stop.indices,
               pairs |-> p.pairs, snames |-> p.snames, tnames |-> p.tnames]

Find ==
    /\ find_status = "pending"
    /\ LET r == FindResult(timestamps, tolerance, start_sequences, stop_sequences)
       IN /\ find_status' = r.status
          /\ start_indices' = r.starts
          /\ stop_indices' = r.stops
          /\ handshake_pairs' = r.pairs
          /\ start_names_sorted' = r.snames
          /\ stop_names_sorted' = r.tnames
    /\ UNCHANGED <<timestamps, tolerance, start_sequences, stop_sequences>>
    /\ UNCHANGED <<detVars, fixVars, trimVars, mainVars, ylineVars>>

\* ------------------------------------------------------ syncing/utils.py
Min(a, b) == IF a < b THEN a ELSE b
Max(a, b) == IF a > b THEN a ELSE b

\* a slice bound as Python normalises it: a negative bound counts from the
\* end, and every bound is clipped to the array
SliceBound(k, n) == IF k < 0 THEN Max(k + n, 0) ELSE Min(k, n)

\* arr[a:b]
PySlice(arr, a, b) ==
    LET lo == SliceBound(a, Len(arr))
        hi == SliceBound(b, Len(arr))
    IN [j \in 1..(IF hi > lo THEN hi - lo ELSE 0) |-> arr[lo + j]]

\* list(range(a, b))
PyRangeMut(a, b) == [j \in 1..(IF b > a THEN b - a ELSE 0) |-> a + j]

PyRange(a, b) == [j \in 1..(IF b > a THEN b - a ELSE 0) |-> a + j - 1]

\* trim_to_handshake_windows: the loop over the pairs, from pair k on
RECURSIVE TrimToHandshakeWindows(_, _, _, _)
TrimToHandshakeWindows(ts, pairs, k, acc) ==
    IF k > Len(pairs) THEN acc
    ELSE LET start_idx == pairs[k][1][2]
             stop_idx  == pairs[k][2][1]
         IN TrimToHandshakeWindows(ts, pairs, k + 1, acc \o PySlice(ts, start_idx, stop_idx))

\* trim_with_index_mapping: the loop over the pairs, from pair k on
RECURSIVE TrimWithIndexMapping(_, _, _, _)
TrimWithIndexMapping(ts, pairs, k, acc) ==
    IF k > Len(pairs) THEN acc
    ELSE LET start_idx == pairs[k][1][2]
             stop_idx  == pairs[k][2][1]
         IN TrimWithIndexMapping(ts, pairs, k + 1,
                [trimmed   |-> acc.trimmed \o PySlice(ts, start_idx, stop_idx),
                 index_map |-> acc.index_map \o PyRange(start_idx, stop_idx)])

TrimOutputs(ts, pairs) ==
    LET r == TrimWithIndexMapping(ts, pairs, 1, [trimmed |-> <<>>, index_map |-> <<>>])
    IN /\ trimmed_windows' = TrimToHandshakeWindows(ts, pairs, 1, <<>>)
       /\ trimmed' = r.trimmed
       /\ index_map' = r.index_map
       /\ trim_pc' = "returned"

\* both functions applied to the arguments they were given
Trim ==
    /\ trim_pc = "pending"
    /\ TrimOutputs(trim_ts, trim_pairs)
    /\ UNCHANGED <<trim_ts, trim_pairs>>
    /\ UNCHANGED <<findVars, detVars, fixVars, mainVars, ylineVars>>

\* run_sync.py: the trimming of the stream find was called on, with the
\* pairs find returned
TrimAfterFind ==
    /\ find_status = "returned"
    /\ trim_pc = "idle"
    /\ trim_ts' = timestamps
    /\ trim_pairs' = handshake_pairs
    /\ TrimOutputs(timestamps, handshake_pairs)
    /\ UNCHANGED <<findVars, detVars, fixVars, mainVars, ylineVars>>

\* ------------------------------------- AnomalyHandler.detect_anomalies
AbsInt(x) == IF x < 0 THEN 0 - x ELSE x

\* sum(arr[a:b]): the slice is cut at the end of the array
RECURSIVE PySum(_, _, _)
PySum(arr, a, b) ==
    IF a >= b \/ a >= Len(arr) THEN 0
    ELSE arr[a + 1] + PySum(arr, a + 1, b)

ClassifySplitFirstMut(arr, i, expected, thr, pause) ==
    LET dt == arr[i + 1]
    IN IF dt < 0 THEN "overflow"
       ELSE IF AbsInt(PySum(arr, i, i + 2) - expected) <= thr THEN "split_2"
       ELSE IF AbsInt(PySum(arr, i, i + 3) - expected) <= thr THEN "split_3"
       ELSE IF AbsInt(dt - expected) <= thr THEN "normal"
       ELSE IF AbsInt(dt - 2 * expected) <= thr THEN "merge"
       ELSE IF dt > pause THEN "pause"
       ELSE "unclassified"

\* the if/elif chain of one iteration, read from the array as it stands
ClassifyMut(arr, i, expected, thr, pause) ==
    LET dt == arr[i + 1]
    IN IF dt < 0 THEN "overflow"
       ELSE IF AbsInt(dt - expected) <= thr THEN "normal"
       ELSE IF AbsInt(dt - 2 * expected) <= thr THEN "merge"
       ELSE IF dt > pause THEN "pause"
       ELSE IF AbsInt(PySum(arr, i, i + 2) - expected) <= thr THEN "split_2"
       ELSE IF AbsInt(PySum(arr, i, i + 3) - expected) <= thr THEN "split_3"
       ELSE "unclassified"

Classify(arr, i, expected, thr, pause) ==
    LET dt == arr[i + 1]
    IN IF dt < 0 THEN "overflow"
       ELSE IF AbsInt(dt - expected) <= thr THEN "normal"
       ELSE IF AbsInt(dt - 2 * expected) <= thr THEN "merge"
       ELSE IF AbsInt(PySum(arr, i, i + 2) - expected) <= thr THEN "split_2"
       ELSE IF AbsInt(PySum(arr, i, i + 3) - expected) <= thr THEN "split_3"
       ELSE IF dt > pause THEN "pause"
       ELSE "unclassified"

\* diffs = np.diff(timestamps).astype(np.int64); anomalies = []
DetectEnter ==
    /\ det_pc = "pending"
    /\ diffs' = NpDiff(stim_led_ts)
    /\ anomalies' = <<>>
    /\ det_i' = 0
    /\ det_pc' = "loop"
    /\ UNCHANGED <<expected_diff, threshold, pause_threshold, stim_led_ts>>
    /\ UNCHANGED <<findVars, fixVars, trimVars, mainVars, ylineVars>>

\* one iteration of `for i, dt in enumerate(diffs)`
DetectStep ==
    /\ det_pc = "loop"
    /\ det_i < Len(diffs)
    /\ LET kind == Classify(diffs, det_i, expected_diff, threshold, pause_threshold)
       IN /\ diffs' = IF kind = "overflow"
                      THEN [diffs EXCEPT ![det_i + 1] = @ + Wrap]
                      ELSE diffs
          /\ anomalies' = IF kind = "normal"
                          THEN anomalies
                          ELSE Append(anomalies, <<det_i, kind>>)
    /\ det_i' = det_i + 1
    /\ UNCHANGED <<expected_diff, threshold, pause_threshold, stim_led_ts, det_pc>>
    /\ UNCHANGED <<findVars, fixVars, trimVars, mainVars, ylineVars>>

\* the loop is exhausted: return anomalies
DetectReturn ==
    /\ det_pc = "loop"
    /\ det_i = Len(diffs)
    /\ det_pc' = "returned"
    /\ UNCHANGED <<expected_diff, threshold, pause_threshold, stim_led_ts, diffs, det_i,
                   anomalies>>
    /\ UNCHANGED <<findVars, fixVars, trimVars, mainVars, ylineVars>>

\* ---------------------------------------------------- AnomalyFixer.fix
\* the parameters of fix besides self
FixParams == {"arduino_ts", "arduino_patterns", "arduino_linetypes", "mea_ts",
              "output_npz_path", "correction_log_path", "handshake_pairs"}

\* an optional value: None is <<>>, a value v is <<v>>
None == <<>>
Some(v) == <<v>>

\* anomaly_map.get(i, None) for anomaly_map = {idx: t for idx, t in self.anomalies}
RECURSIVE AnomalyGet(_, _)
AnomalyGet(list, i) ==
    IF list = <<>> THEN "None"
    ELSE IF list[Len(list)][1] = i THEN list[Len(list)][2]
    ELSE AnomalyGet(SubSeq(list, 1, Len(list) - 1), i)

\* the running offset after a detected wrap
OffsetAfterWrapMut(offset) == Wrap

OffsetAfterWrap(offset) == offset + Wrap

\* the global overflow fix: the loop over idx, on the array it rewrites
RECURSIVE OverflowFix(_, _, _, _)
OverflowFix(ts, idx, offset, info) ==
    IF idx >= Len(ts) THEN [ts |-> ts, info |-> info]
    ELSE LET flag == idx > 0 /\ ts[idx + 1] < ts[idx]
             off  == IF flag THEN OffsetAfterWrap(offset) ELSE offset
         IN OverflowFix([ts EXCEPT ![idx + 1] = @ + off], idx + 1, off,
                        Append(info, <<flag, off>>))

\* arr[k] of a numpy array or a list: a negative k counts from the end
IndexValid(arr, k) == k < Len(arr) /\ k >= 0 - Len(arr)
IndexAt(arr, k) == IF k >= 0 THEN arr[k + 1] ELSE arr[Len(arr) + k + 1]

\* arduino_patterns[k]: as long as arduino_ts; the pattern stands as its index
PatternValid(k) == k < Len(arduino_ts) /\ k >= 0 - Len(arduino_ts)
PatternAt(k) == IF k >= 0 THEN k ELSE Len(arduino_ts) + k

\* the record template of one iteration
Template(i, a) ==
    [original_index      |-> i,
     original_timestamp  |-> arduino_ts[i + 1],
     anomaly_type        |-> IF a = "None" THEN "normal" ELSE a,
     overflow_fix        |-> overflow_info[i + 1][1],
     overflow_offset     |-> overflow_info[i + 1][2],
     mea_indices_used    |-> <<>>,
     skip_count          |-> Some(0),
     extra_inserts       |-> Some(0),
     corrected_timestamp |-> None]

\* the cursor after a branch that maps one entry to mea_ts[d]
CursorAfterMut(a, d) == d + 1

CursorAfter(a, d) == IF a = "merge" THEN d + 2 ELSE d + 1

Emit(o, t, p, r) ==
    [ts |-> Append(o.ts, t), pats |-> Append(o.pats, p), recs |-> Append(o.recs, r)]

EmitTs(o, t) == [o EXCEPT !.ts = Append(@, t)]

EmitRest(o, p, r) == [o EXCEPT !.pats = Append(@, p), !.recs = Append(@, r)]

Raised(o, d) == [out |-> o, d |-> d, raised |-> TRUE]
Passed(o, d) == [out |-> o, d |-> d, raised |-> FALSE]

\* the split_2 branch: what was appended when it finished or raised
Split2(i, d, out, rec) ==
    IF ~IndexValid(mea_ts, d - 1) THEN Raised(out, d)
    ELSE
      LET first == IndexAt(mea_ts, d - 1) + (arduino_ts[i + 1] - IndexAt(arduino_ts, i - 1))
          o1 == Emit(out, first, PatternAt(i),
                     [rec EXCEPT !.corrected_timestamp = Some(first),
                                 !.extra_inserts = Some(1),
                                 !.mea_indices_used = <<d - 1>>])
      IN IF ~IndexValid(mea_ts, d) THEN Raised(o1, d)
         ELSE
           LET second == IndexAt(mea_ts, d)
               o2 == EmitTs(o1, second)
           IN IF ~PatternValid(i + 1) THEN Raised(o2, d)
              ELSE Passed(EmitRest(o2, PatternAt(i + 1),
                                   [rec EXCEPT !.corrected_timestamp = Some(second),
                                               !.mea_indices_used = <<d>>]),
                          d + 1)

\* the split_3 branch
Split3(i, d, out, rec) ==
    IF ~IndexValid(mea_ts, d - 1) THEN Raised(out, d)
    ELSE
      LET first == IndexAt(mea_ts, d - 1) + (arduino_ts[i + 1] - IndexAt(arduino_ts, i - 1))
          o1 == Emit(out, first, PatternAt(i),
                     [rec EXCEPT !.corrected_timestamp = Some(first),
                                 !.extra_inserts = Some(2),
                                 !.mea_indices_used = <<d - 1>>])
      IN IF ~IndexValid(arduino_ts, i + 1) THEN Raised(o1, d)
         ELSE
           LET second == first + (IndexAt(arduino_ts, i + 1) - arduino_ts[i + 1])
               o2 == Emit(o1, second, PatternAt(i + 1),
                          [rec EXCEPT !.corrected_timestamp = Some(second),
                                      !.extra_inserts = Some(1),
                                      !.mea_indices_used = <<d - 1>>])
           IN IF ~IndexValid(mea_ts, d) THEN Raised(o2, d)
              ELSE
                LET third == IndexAt(mea_ts, d)
                    o3 == EmitTs(o2, third)
                IN IF ~PatternValid(i + 2) THEN Raised(o3, d)
                   ELSE Passed(EmitRest(o3, PatternAt(i + 2),
                                        [rec EXCEPT !.corrected_timestamp = Some(third),
                                                    !.mea_indices_used = <<d>>]),
                               d + 1)

\* the branches that map the entry to mea_ts[d]: no label, merge, pause,
\* unclassified and any other label
OneToOne(i, a, d, out, rec) ==
    IF ~IndexValid(mea_ts, d) THEN Raised(out, d)
    ELSE Passed(Emit(out, IndexAt(mea_ts, d), PatternAt(i),
                     [rec EXCEPT !.corrected_timestamp = Some(IndexAt(mea_ts, d)),
                                 !.mea_indices_used = <<d>>,
                                 !.skip_count = IF a = "merge" THEN Some(1) ELSE Some(0)]),
                CursorAfter(a, d))

WalkStepMut(i, a, d, out) ==
    IF a = "split_2" THEN Split2(i, d, out, Template(i, a))
    ELSE IF a = "split_3" THEN Split3(i, d, out, Template(i, a))
    ELSE IF a \in {"None", "merge", "pause"} THEN OneToOne(i, a, d, out, Template(i, a))
    ELSE Raised(out, d)

\* one iteration of the walk for entry i with label a
WalkStep(i, a, d, out) ==
    IF a = "split_2" THEN Split2(i, d, out, Template(i, a))
    ELSE IF a = "split_3" THEN Split3(i, d, out, Template(i, a))
    ELSE OneToOne(i, a, d, out, Template(i, a))

\* the placeholder row of index j
Placeholder(j) ==
    [original_index      |-> j,
     original_timestamp  |-> arduino_ts[j + 1],
     anomaly_type        |-> "not_fixed_due_to_error",
     overflow_fix        |-> overflow_info[j + 1][1],
     overflow_offset     |-> overflow_info[j + 1][2],
     mea_indices_used    |-> <<>>,
     skip_count          |-> None,
     extra_inserts       |-> None,
     corrected_timestamp |-> None]

\* the call binds its keywords; then everything up to the walk
FixEnter ==
    /\ fix_pc = "call"
    /\ IF ~(call_kwargs \subseteq FixParams)
       THEN /\ fix_pc' = "TypeError"
            /\ UNCHANGED <<arduino_ts, overflow_info, fix_i>>
       ELSE LET r == OverflowFix(arduino_ts, 0, 0, <<>>)
            IN /\ arduino_ts' = r.ts
               /\ overflow_info' = r.info
               /\ fix_i' = 0
               /\ fix_pc' = IF Len(arduino_ts) = 0 THEN "save" ELSE "walk"
    /\ UNCHANGED <<self_anomalies, call_kwargs, raw_ts, mea_ts, corrected_ts,
                   corrected_patterns, correction_records, d_e_index, success, written>>
    /\ UNCHANGED <<findVars, detVars, trimVars, mainVars, ylineVars>>

\* one iteration of the loop inside the try
FixStep ==
    /\ fix_pc = "walk"
    /\ LET r == WalkStep(fix_i, AnomalyGet(self_anomalies, fix_i), d_e_index,
                         [ts |-> corrected_ts, pats |-> corrected_patterns,
                          recs |-> correction_records])
       IN /\ corrected_ts' = r.out.ts
          /\ corrected_patterns' = r.out.pats
          /\ correction_records' = r.out.recs
          /\ d_e_index' = r.d
          /\ fix_i' = IF r.raised THEN fix_i ELSE fix_i + 1
          /\ fix_pc' = IF r.raised THEN "except"
                       ELSE IF fix_i + 1 = Len(arduino_ts) THEN "save"
                       ELSE "walk"
    /\ UNCHANGED <<self_anomalies, call_kwargs, raw_ts, arduino_ts, mea_ts, overflow_info,
                   success, written>>
    /\ UNCHANGED <<findVars, detVars, trimVars, mainVars, ylineVars>>

\* the except block
FixExcept ==
    /\ fix_pc = "except"
    /\ success' = FALSE
    /\ correction_records' =
           correction_records \o
           [k \in 1..(Len(arduino_ts) - fix_i) |-> Placeholder(fix_i + k - 1)]
    /\ fix_pc' = "save"
    /\ UNCHANGED <<self_anomalies, call_kwargs, raw_ts, arduino_ts, mea_ts, overflow_info,
                   corrected_ts, corrected_patterns, d_e_index, fix_i, written>>
    /\ UNCHANGED <<findVars, detVars, trimVars, mainVars, ylineVars>>

\* the two artifacts are written and fix returns None
FixSave ==
    /\ fix_pc = "save"
    /\ written' = IF success THEN {"npz", "csv"} ELSE {"npz_partial", "csv_partial"}
    /\ fix_pc' = "returned"
    /\ UNCHANGED <<self_anomalies, call_kwargs, raw_ts, arduino_ts, mea_ts, overflow_info,
                   corrected_ts, corrected_patterns, correction_records, d_e_index, fix_i,
                   success>>
    /\ UNCHANGED <<findVars, detVars, trimVars, mainVars, ylineVars>>

\* ------------------------------------------------ syncing/yline_check.py
\* the loop over the pairs, from pair k on (k counts from 1 as handshake_id)
RECURSIVE YlineScan(_, _, _, _, _)
YlineScan(linetypes, pairs, y, k, acc) ==
    IF k > Len(pairs) THEN acc
    ELSE LET sb == pairs[k][1][1]
             se == pairs[k][1][2]
             ts_idx == se + 1
             seen == Append(acc.inspected, ts_idx)
         IN IF 0 <= ts_idx /\ ts_idx < Len(linetypes) /\ linetypes[ts_idx + 1] = y
            THEN YlineScan(linetypes, pairs, y, k + 1,
                     [inspected |-> seen,
                      findings  |-> Append(acc.findings,
                                       [handshake_id |-> k,
                                        start_diff_begin |-> sb,
                                        start_diff_end |-> se,
                                        first_post_start_ts_index |-> ts_idx])])
            ELSE YlineScan(linetypes, pairs, y, k + 1,
                     [inspected |-> seen, findings |-> acc.findings])

FindYline ==
    /\ yline_pc = "pending"
    /\ LET r == YlineScan(arduino_linetypes, yline_pairs, byte_y, 1,
                          [inspected |-> <<>>, findings |-> <<>>])
       IN /\ inspected' = r.inspected
          /\ findings' = r.findings
    /\ yline_pc' = "returned"
    /\ UNCHANGED <<arduino_linetypes, yline_pairs, byte_y>>
    /\ UNCHANGED <<findVars, detVars, fixVars, trimVars, mainVars>>

\* ------------------------------------------------------- run_sync.py: main
\* the keyword names of the call fixer.fix(...) in main
MainFixKwargs == FixParams \cup {"start_names", "stop_names"}

\* whether a call with these keyword names binds to fix's signature
FixAccepts(kwargs) == kwargs \subseteq FixParams

\* what one .h5 name and its data turn out to be:
\*   recid  the "RecID" part of the name: "absent", "malformed" (int() raises),
\*          "below" rec_id_start, "above" rec_id_end, or "within"
\*   led    match_led_file: "raises", returns "none", or "found"
\*   body   the exception raised between loading and the call of fix, or "ok"
BodyErrors == {"OSError", "HandshakeError", "IndexError"}

FileFacts == [recid : {"absent", "malformed", "below", "above", "within"},
              led   : {"raises", "none", "found"},
              body  : BodyErrors \cup {"ok"}]

NewRow(k) ==
    [mea_file |-> k, status |-> "started", error_type |-> None, error_message |-> None]

SkippedRow(row) == [row EXCEPT !.status = "skipped"]

FailedRowMut(row, type, message) ==
    [row EXCEPT !.error_type = Some(type), !.error_message = Some(message)]

FailedRow(row, type, message) ==
    [row EXCEPT !.status = "failed", !.error_type = Some(type), !.error_message = Some(message)]

SuccessRow(row) == [row EXCEPT !.status = "success"]

\* the body of the inner try for one .h5 file, up to the row it appends
RowOf(row, f) ==
    LET filtering == rec_id_start_set \/ rec_id_end_set
    IN IF filtering /\ f.recid = "absent" THEN SkippedRow(row)
       ELSE IF filtering /\ f.recid = "malformed" THEN FailedRow(row, "ValueError", "str(e)")
       ELSE IF filtering /\ rec_id_start_set /\ f.recid = "below" THEN SkippedRow(row)
       ELSE IF filtering /\ rec_id_end_set /\ f.recid = "above" THEN SkippedRow(row)
       ELSE IF f.led = "raises" THEN FailedRow(row, "LedLogNotFoundError", "str(e)")
       ELSE IF f.led = "none"
            THEN FailedRow(row, "LedLogNotFoundError", "match_led_file returned None")
       ELSE IF f.body # "ok" THEN FailedRow(row, f.body, "str(e)")
       ELSE IF ~FixAccepts(MainFixKwargs) THEN FailedRow(row, "TypeError", "str(e)")
       ELSE SuccessRow(row)

\* a name that does not end in ".h5": continue
MainSkipName ==
    /\ main_pc = "loop"
    /\ file_idx < Len(files)
    /\ ~files[file_idx + 1]
    /\ file_idx' = file_idx + 1
    /\ UNCHANGED <<files, rec_id_start_set, rec_id_end_set, summary_rows, interrupted,
                   summary_written, main_pc>>
    /\ UNCHANGED <<findVars, detVars, fixVars, trimVars, ylineVars>>

\* one iteration for a .h5 file that runs to its append
MainProcessFile ==
    /\ main_pc = "loop"
    /\ file_idx < Len(files)
    /\ files[file_idx + 1]
    /\ \E f \in FileFacts :
           summary_rows' = Append(summary_rows, RowOf(NewRow(file_idx), f))
    /\ file_idx' = file_idx + 1
    /\ UNCHANGED <<files, rec_id_start_set, rec_id_end_set, interrupted, summary_written,
                   main_pc>>
    /\ UNCHANGED <<findVars, detVars, fixVars, trimVars, ylineVars>>

\* KeyboardInterrupt during the iteration of a .h5 file: break (inside the
\* inner try) or the outer handler (before it); either way on to finally
MainInterrupt ==
    /\ main_pc = "loop"
    /\ file_idx < Len(files)
    /\ files[file_idx + 1]
    /\ interrupted' = Some(file_idx)
    /\ main_pc' = "finally"
    /\ UNCHANGED <<files, rec_id_start_set, rec_id_end_set, file_idx, summary_rows,
                   summary_written>>
    /\ UNCHANGED <<findVars, detVars, fixVars, trimVars, ylineVars>>

\* the for loop runs out of names
MainLoopEnd ==
    /\ main_pc = "loop"
    /\ file_idx = Len(files)
    /\ main_pc' = "finally"
    /\ UNCHANGED <<files, rec_id_start_set, rec_id_end_set, file_idx, summary_rows,
                   interrupted, summary_written>>
    /\ UNCHANGED <<findVars, detVars, fixVars, trimVars, ylineVars>>

SummaryOutputMut(rows) == None

\* what the finally block leaves in the summary CSV and JSON
SummaryOutput(rows) == IF rows # <<>> THEN Some(rows) ELSE None

MainFinally ==
    /\ main_pc = "finally"
    /\ summary_written' = SummaryOutput(summary_rows)
    /\ main_pc' = "done"
    /\ UNCHANGED <<files, rec_id_start_set, rec_id_end_set, file_idx, summary_rows,
                   interrupted>>
    /\ UNCHANGED <<findVars, detVars, fixVars, trimVars, ylineVars>>

\* --------------------------------------------------------- inputs of find
\* interval values: two near the start signatures, one near the stop
\* signatures, one beyond the int32 range by a full word, one by half a word
FindDiffValues == {1, 2, 4, HalfWrap + 1, Wrap + 1}

RECURSIVE SeqsUpTo(_, _)
SeqsUpTo(S, n) ==
    IF n = 0 THEN {<<>>}
    ELSE LET shorter == SeqsUpTo(S, n - 1)
         IN shorter \cup {Append(s, x) : s \in {t \in shorter : Len(t) = n - 1}, x \in S}

RECURSIVE PrefixSums(_, _)
PrefixSums(first, ds) ==
    IF ds = <<>> THEN <<first>>
    ELSE <<first>> \o PrefixSums(first + Head(ds), Tail(ds))

FindTimestamps == {<<>>} \cup {PrefixSums(0, ds) : ds \in SeqsUpTo(FindDiffValues, MaxDiffs)}

Pat(n, s) == [name |-> n, seq |-> s]

TableConfigs ==
    { [start |-> <<Pat("A", <<2, 1>>), Pat("B", <<1, 2>>)>>,
       stop  |-> <<Pat("S", <<4>>)>>],
      [start |-> <<Pat("A", <<1>>), Pat("B", <<1, 2>>)>>,
       stop  |-> <<Pat("S", <<4>>), Pat("T", <<2, 4>>)>>],
      [start |-> <<Pat("A", <<1>>)>>,
       stop  |-> <<Pat("S", <<4>>)>>] }

FindIdle ==
    /\ timestamps = <<>>
    /\ tolerance = 0
    /\ start_sequences = <<>>
    /\ stop_sequences = <<>>
    /\ find_status = "idle"
    /\ start_indices = <<>>
    /\ stop_indices = <<>>
    /\ handshake_pairs = <<>>
    /\ start_names_sorted = <<>>
    /\ stop_names_sorted = <<>>

DetIdle ==
    /\ expected_diff = 0
    /\ threshold = 0
    /\ pause_threshold = 0
    /\ stim_led_ts = <<>>
    /\ diffs = <<>>
    /\ det_i = 0
    /\ anomalies = <<>>
    /\ det_pc = "idle"

FixIdle ==
    /\ self_anomalies = <<>>
    /\ call_kwargs = {}
    /\ raw_ts = <<>>
    /\ arduino_ts = <<>>
    /\ mea_ts = <<>>
    /\ overflow_info = <<>>
    /\ corrected_ts = <<>>
    /\ corrected_patterns = <<>>
    /\ correction_records = <<>>
    /\ d_e_index = 0
    /\ fix_i = 0
    /\ success = TRUE
    /\ written = {}
    /\ fix_pc = "idle"

TrimIdle ==
    /\ trim_ts = <<>>
    /\ trim_pairs = <<>>
    /\ trimmed_windows = <<>>
    /\ trimmed = <<>>
    /\ index_map = <<>>
    /\ trim_pc = "idle"

YlineIdle ==
    /\ arduino_linetypes = <<>>
    /\ yline_pairs = <<>>
    /\ byte_y = 0
    /\ inspected = <<>>
    /\ findings = <<>>
    /\ yline_pc = "idle"

MainIdle ==
    /\ files = <<>>
    /\ rec_id_start_set = FALSE
    /\ rec_id_end_set = FALSE
    /\ file_idx = 0
    /\ summary_rows = <<>>
    /\ interrupted = None
    /\ summary_written = None
    /\ main_pc = "idle"

InitFind ==
    /\ DetIdle
    /\ FixIdle
    /\ TrimIdle
    /\ MainIdle
    /\ YlineIdle
    /\ timestamps \in FindTimestamps
    /\ tolerance \in {0, 1}
    /\ \E c \in TableConfigs : start_sequences = c.start /\ stop_sequences = c.stop
    /\ find_status = "pending"
    /\ start_indices = <<>>
    /\ stop_indices = <<>>
    /\ handshake_pairs = <<>>
    /\ start_names_sorted = <<>>
    /\ stop_names_sorted = <<>>

NextFind == Find \/ TrimAfterFind

SpecFind == InitFind /\ [][NextFind]_vars

\* ------------------------------------------- inputs of detect_anomalies
\* timestamps of a trimmed Arduino stream, raw (before any overflow fix);
\* their differences give normal, merged, split, paused, odd and wrapped
\* intervals for an expected interval of 4
DetTsValues == {0, 1, 2, 4, 12}

InitDetect ==
    /\ MainIdle
    /\ YlineIdle
    /\ FindIdle
    /\ FixIdle
    /\ TrimIdle
    /\ expected_diff = 4
    /\ threshold \in {0, 1}
    /\ pause_threshold = 10
    /\ stim_led_ts \in SeqsUpTo(DetTsValues, MaxDetLen)
    /\ diffs = <<>>
    /\ det_i = 0
    /\ anomalies = <<>>
    /\ det_pc = "pending"

NextDetect == DetectEnter \/ DetectStep \/ DetectReturn

SpecDetect == InitDetect /\ [][NextDetect]_vars

\* ------------------------------------------------------- inputs of fix
AnomalyKinds == {"overflow", "merge", "split_2", "split_3", "pause", "unclassified"}

\* anomaly lists of at most k entries over the indices lo..(n-1), in
\* increasing index order as detect_anomalies returns them
RECURSIVE AnomalyLists(_, _, _)
AnomalyLists(lo, n, k) ==
    IF k = 0 \/ lo >= n THEN {<<>>}
    ELSE {<<>>} \cup
         UNION {{<<<<i, t>>>> \o rest : t \in AnomalyKinds,
                                        rest \in AnomalyLists(i + 1, n, k - 1)} :
                i \in lo..(n - 1)}

\* Arduino timestamps: a rising stream, and one that wraps after two entries
ArduinoStream(n, first) == [k \in 1..n |-> (first + 3 * (k - 1)) % Wrap]

\* the reference stream of m entries
MeaStream(m) == [k \in 1..m |-> 20 + 4 * (k - 1)]

FixStart ==
    /\ raw_ts = arduino_ts
    /\ overflow_info = <<>>
    /\ corrected_ts = <<>>
    /\ corrected_patterns = <<>>
    /\ correction_records = <<>>
    /\ d_e_index = 0
    /\ fix_i = 0
    /\ success = TRUE
    /\ written = {}
    /\ fix_pc = "call"

InitFix ==
    /\ MainIdle
    /\ YlineIdle
    /\ FindIdle
    /\ DetIdle
    /\ TrimIdle
    /\ \E n \in 0..MaxEvents :
           /\ arduino_ts \in {ArduinoStream(n, 1), ArduinoStream(n, Wrap - 6)}
           /\ self_anomalies \in AnomalyLists(0, n, MaxAnomalies)
    /\ mea_ts \in {MeaStream(m) : m \in 0..MaxMea}
    /\ call_kwargs \in {FixParams, FixParams \cup {"start_names", "stop_names"}}
    /\ FixStart

NextFix == FixEnter \/ FixStep \/ FixExcept \/ FixSave

SpecFix == InitFix /\ [][NextFix]_vars

\* raw timestamps around the wrap: the lowest and the highest timer values
NormTsValues == (0..MaxRaw) \cup ((Wrap - 2)..(Wrap - 1))

InitNorm ==
    /\ MainIdle
    /\ YlineIdle
    /\ FindIdle
    /\ DetIdle
    /\ TrimIdle
    /\ arduino_ts \in SeqsUpTo(NormTsValues, MaxNormLen)
    /\ self_anomalies = <<>>
    /\ mea_ts = <<>>
    /\ call_kwargs = FixParams
    /\ FixStart

NextNorm == FixEnter

SpecNorm == InitNorm /\ [][NextNorm]_vars

\* ------------------------------------ inputs of the trimming functions
\* a stream of distinct timestamps
TrimStream(n) == [k \in 1..n |-> 10 + 3 * (k - 1)]

\* index ranges one or two intervals long; with a stream shorter than
\* MaxTrimLen some of them reach beyond the stream
TrimRanges == {<<b, b + len>> : b \in 0..(MaxTrimLen - 1), len \in 1..2}

TrimPairs == TrimRanges \X TrimRanges

TrimPairLists ==
    {<<>>} \cup {<<p>> : p \in TrimPairs} \cup {<<p, q>> : p \in TrimPairs, q \in TrimPairs}

InitTrim ==
    /\ MainIdle
    /\ YlineIdle
    /\ FindIdle
    /\ DetIdle
    /\ FixIdle
    /\ trim_ts \in {TrimStream(n) : n \in 0..MaxTrimLen}
    /\ trim_pairs \in TrimPairLists
    /\ trimmed_windows = <<>>
    /\ trimmed = <<>>
    /\ index_map = <<>>
    /\ trim_pc = "pending"

NextTrim == Trim

SpecTrim == InitTrim /\ [][NextTrim]_vars

\* ------------------------------------------------------- inputs of main
InitMain ==
    /\ YlineIdle
    /\ FindIdle
    /\ DetIdle
    /\ FixIdle
    /\ TrimIdle
    /\ files \in SeqsUpTo(BOOLEAN, MaxFiles)
    /\ rec_id_start_set \in BOOLEAN
    /\ rec_id_end_set \in BOOLEAN
    /\ file_idx = 0
    /\ summary_rows = <<>>
    /\ interrupted = None
    /\ summary_written = None
    /\ main_pc = "loop"

NextMain == MainSkipName \/ MainProcessFile \/ MainInterrupt \/ MainLoopEnd \/ MainFinally

SpecMain == InitMain /\ [][NextMain]_vars

\* the interpreter keeps running main until it returns
SpecMainLive == SpecMain /\ WF_vars(NextMain)

\* ---------------------------------------------------- claims about find
RangesDisjoint(r, s) == r[2] <= s[1] \/ s[2] <= r[1]

PairwiseDisjoint(rs) ==
    \A a, b \in 1..Len(rs) : a # b => RangesDisjoint(rs[a], rs[b])

ReturnedStarts == [k \in 1..Len(handshake_pairs) |-> handshake_pairs[k][1]]
ReturnedStops == [k \in 1..Len(handshake_pairs) |-> handshake_pairs[k][2]]

\* C1: whenever find returns, the returned start ranges are pairwise disjoint
\* and the returned stop ranges are pairwise disjoint.
C1_MatchesDisjoint ==
    find_status = "returned" =>
        /\ PairwiseDisjoint(ReturnedStarts)
        /\ PairwiseDisjoint(ReturnedStops)

\* the signature a pattern name stands for in a table
SignatureOf(table, n) == (CHOOSE k \in 1..Len(table) : table[k].name = n)

\* every element of the range deviates from the signature by at most the
\* tolerance, measured on the true first difference of the timestamps
WithinTolerance(range, sig) ==
    /\ range[2] - range[1] = Len(sig)
    /\ \A j \in 0..(Len(sig) - 1) :
           AbsInt((timestamps[range[1] + j + 2] - timestamps[range[1] + j + 1]) - sig[j + 1])
               <= tolerance

\* C2: every range find reports for a signature deviates from it by no more
\* than the tolerance per element, on the true (unwrapped) intervals.
C2_MatchWithinTolerance ==
    find_status = "returned" =>
        \A k \in 1..Len(handshake_pairs) :
            /\ WithinTolerance(handshake_pairs[k][1],
                   start_sequences[SignatureOf(start_sequences, start_names_sorted[k])].seq)
            /\ WithinTolerance(handshake_pairs[k][2],
                   stop_sequences[SignatureOf(stop_sequences, stop_names_sorted[k])].seq)

SeqElems(s) == {s[k] : k \in 1..Len(s)}

\* the k-th range of a match list by starting offset
KthByOffset(rs, k) ==
    CHOOSE r \in SeqElems(rs) : Cardinality({s \in SeqElems(rs) : RangeLess(s, r)}) = k - 1

FindFinished == find_status \in {"returned", "ValueError", "HandshakeError"}

CountsAgree == Len(start_indices) = Len(stop_indices) /\ Len(start_indices) >= 1

\* C3: a returned pair k is the k-th start and the k-th stop by offset with
\* start end < stop begin; if any such pair breaks the inequality find raises
\* HandshakeError and returns no pairs.
C3_PairingStrict ==
    /\ find_status = "returned" =>
           /\ Len(handshake_pairs) = Len(start_indices)
           /\ \A k \in 1..Len(handshake_pairs) :
                  /\ handshake_pairs[k][1] = KthByOffset(start_indices, k)
                  /\ handshake_pairs[k][2] = KthByOffset(stop_indices, k)
                  /\ handshake_pairs[k][1][2] < handshake_pairs[k][2][1]
    /\ (/\ FindFinished
        /\ CountsAgree
        /\ \E k \in 1..Len(start_indices) :
               KthByOffset(start_indices, k)[2] >= KthByOffset(stop_indices, k)[1])
           => (find_status = "HandshakeError" /\ handshake_pairs = <<>>)

\* two pairs returned although the stop matches were detected out of offset order
C3_Witness ==
    /\ find_status = "returned"
    /\ Len(handshake_pairs) >= 2
    /\ stop_indices[1][1] > stop_indices[2][1]

\* C4: find returns only with equal, non-zero match counts; zero or unequal
\* counts raise HandshakeError; fewer than 2 timestamps raise before any scan.
C4_CountsChecked ==
    /\ find_status = "returned" =>
           /\ CountsAgree
           /\ Len(handshake_pairs) >= 1
    /\ (FindFinished /\ Len(timestamps) >= 2 /\ ~CountsAgree)
           => find_status = "HandshakeError"
    /\ (FindFinished /\ Len(timestamps) < 2)
           => (find_status = "ValueError" /\ start_indices = <<>> /\ stop_indices = <<>>)

\* both tables matched, but a different number of times
C4_Witness ==
    /\ find_status = "HandshakeError"
    /\ Len(start_indices) >= 1
    /\ Len(stop_indices) >= 1
    /\ Len(start_indices) # Len(stop_indices)

\* ------------------------------------------------------ claims about fix
Entered == fix_pc \in {"walk", "except", "save", "returned"}

\* what one iteration appended, and how far it moved the cursor
Appended == <<Len(corrected_ts') - Len(corrected_ts),
              Len(corrected_patterns') - Len(corrected_patterns),
              Len(correction_records') - Len(correction_records)>>

C6_StepEffect ==
    (fix_pc = "walk" /\ fix_pc' \in {"walk", "save"}) =>
        LET a == AnomalyGet(self_anomalies, fix_i)
            advance == d_e_index' - d_e_index
        IN /\ a = "None"    => (Appended = <<1, 1, 1>> /\ advance = 1)
           /\ a = "merge"   => (Appended = <<1, 1, 1>> /\ advance = 2)
           /\ a = "split_2" => (Appended = <<2, 2, 2>> /\ advance = 1)
           /\ a = "split_3" => (Appended = <<3, 3, 3>> /\ advance = 1)

C6_NoAnomalyTotals ==
    (fix_pc = "returned" /\ success /\ self_anomalies = <<>>) =>
        /\ Len(corrected_ts) = Len(arduino_ts)
        /\ Len(corrected_ts) = d_e_index

\* C6: an iteration that does not raise emits 1 record and moves the cursor
\* by 1 (unlabelled), 1 and 2 (merge), 2 and 1 (split_2), 3 and 1 (split_3);
\* with no anomalies the output is as long as the input and as the cursor.
C6_Conservation == [][C6_StepEffect]_vars /\ []C6_NoAnomalyTotals

\* a walk that went through with a merge and a three-way split in it
C6_Witness ==
    /\ fix_pc = "returned"
    /\ success
    /\ \E k \in 1..Len(self_anomalies) : self_anomalies[k][2] = "split_3"
    /\ \E k \in 1..Len(self_anomalies) : self_anomalies[k][2] = "merge"

\* the number of positions 1..i at which the raw stream wrapped
WrapsUpTo(i) == Cardinality({j \in 1..i : raw_ts[j + 1] < raw_ts[j]})

\* C7: after the overflow fix every timestamp is the raw one plus 2^32 per
\* wrap up to it, the flag is set at exactly the wrap positions and the
\* recorded offset is 2^32 per wrap.
C7_OffsetPerWrap ==
    Entered =>
        \A i \in 0..(Len(raw_ts) - 1) :
            /\ arduino_ts[i + 1] = raw_ts[i + 1] + Wrap * WrapsUpTo(i)
            /\ overflow_info[i + 1][1] = (i > 0 /\ raw_ts[i + 1] < raw_ts[i])
            /\ overflow_info[i + 1][2] = Wrap * WrapsUpTo(i)

\* C8: for raw timestamps in [0, 2^32) the array left by the overflow fix is
\* non-decreasing.
C8_Monotonic ==
    (Entered /\ \A k \in 1..Len(raw_ts) : raw_ts[k] \in 0..(Wrap - 1)) =>
        \A k \in 1..(Len(arduino_ts) - 1) : arduino_ts[k] <= arduino_ts[k + 1]

\* a normalised stream that wrapped before its last entry
C8_Witness ==
    /\ Entered
    /\ Len(raw_ts) >= 3
    /\ raw_ts[2] < raw_ts[1]
    /\ arduino_ts # raw_ts

Populated(r) ==
    /\ r.anomaly_type # "not_fixed_due_to_error"
    /\ r.corrected_timestamp # None

\* C9: when the walk raised at index k, the log is k populated rows followed
\* by one placeholder row per index k..len-1, and only the _partial artifacts
\* are written.
C9_PartialLog ==
    (fix_pc = "returned" /\ ~success) =>
        /\ Len(correction_records) = Len(arduino_ts)
        /\ \A r \in 1..fix_i : Populated(correction_records[r])
        /\ \A j \in fix_i..(Len(arduino_ts) - 1) :
               /\ correction_records[j + 1].original_index = j
               /\ correction_records[j + 1].anomaly_type = "not_fixed_due_to_error"
               /\ correction_records[j + 1].corrected_timestamp = None
        /\ written = {"npz_partial", "csv_partial"}

\* C10: a walk that failed part-way is reported to the caller: fix does not
\* return normally after it.
C10_FailureReported == fix_pc = "returned" => success

\* ------------------------------------------ claims about detect_anomalies
\* the true first differences of the stream the classifier was given
RawIntervals == NpDiff(stim_led_ts)

\* the outcome the rule list assigns to interval i on the first differences
RuleOutcome(i) ==
    LET D  == RawIntervals
        n  == Len(D)
        dt == D[i + 1]
    IN IF dt < 0 THEN "overflow"
       ELSE IF AbsInt(dt - expected_diff) <= threshold THEN "normal"
       ELSE IF AbsInt(dt - 2 * expected_diff) <= threshold THEN "merge"
       ELSE IF i + 1 < n /\ AbsInt(D[i + 1] + D[i + 2] - expected_diff) <= threshold
            THEN "split_2"
       ELSE IF i + 2 < n /\ AbsInt(D[i + 1] + D[i + 2] + D[i + 3] - expected_diff) <= threshold
            THEN "split_3"
       ELSE IF dt > pause_threshold THEN "pause"
       ELSE "unclassified"

RecordsAt(i) == {k \in 1..Len(anomalies) : anomalies[k][1] = i}

\* C5: every interval visited so far has exactly the outcome of the first
\* matching rule (no record for normal, one record otherwise), and the list
\* is in strictly increasing index order.
C5_FirstRuleWins ==
    det_pc \in {"loop", "returned"} =>
        /\ \A i \in 0..(det_i - 1) :
               IF RuleOutcome(i) = "normal"
               THEN RecordsAt(i) = {}
               ELSE /\ Cardinality(RecordsAt(i)) = 1
                    /\ \A k \in RecordsAt(i) : anomalies[k][2] = RuleOutcome(i)
        /\ \A k \in 1..Len(anomalies) : anomalies[k][1] \in 0..(det_i - 1)
        /\ \A k \in 1..(Len(anomalies) - 1) : anomalies[k][1] < anomalies[k + 1][1]

\* a finished pass that saw a wrapped interval, a split and a normal interval
C5_Witness ==
    /\ det_pc = "returned"
    /\ \E k \in 1..Len(anomalies) : anomalies[k][2] = "overflow"
    /\ \E k \in 1..Len(anomalies) : anomalies[k][2] \in {"split_2", "split_3"}
    /\ \E i \in 0..(Len(diffs) - 1) : RecordsAt(i) = {}

\* ------------------------------------- claims about the trimming functions
\* every range of every pair lies inside the stream: interval indices run
\* over 0 .. Len(ts) - 2, so a range ends at Len(ts) - 1 at most
InsideStream(ts, pairs) ==
    \A k \in 1..Len(pairs) : \A side \in 1..2 :
        /\ 0 <= pairs[k][side][1]
        /\ pairs[k][side][1] <= pairs[k][side][2]
        /\ pairs[k][side][2] <= Len(ts) - 1

\* timestamps[start_range.end : stop_range.begin] of pair k, for a pair
\* inside the stream
WindowOf(ts, pair) ==
    [j \in 1..(IF pair[2][1] > pair[1][2] THEN pair[2][1] - pair[1][2] ELSE 0)
        |-> ts[pair[1][2] + j]]

RECURSIVE WindowsInPairOrder(_, _, _)
WindowsInPairOrder(ts, pairs, k) ==
    IF k > Len(pairs) THEN <<>>
    ELSE WindowOf(ts, pairs[k]) \o WindowsInPairOrder(ts, pairs, k + 1)

C11_TrimResult ==
    (trim_pc = "returned" /\ InsideStream(trim_ts, trim_pairs)) =>
        /\ trimmed_windows = trimmed
        /\ trimmed = WindowsInPairOrder(trim_ts, trim_pairs, 1)
        /\ Len(index_map) = Len(trimmed)
        /\ \A k \in 1..Len(trimmed) :
              /\ index_map[k] \in 0..(Len(trim_ts) - 1)
              /\ trimmed[k] = trim_ts[index_map[k] + 1]

C11_InputsKept == trim_pc = "pending" => (trim_ts' = trim_ts /\ trim_pairs' = trim_pairs)

\* C11: for pairs whose ranges lie inside the stream, both trimming
\* functions return the same array, the concatenation in pair order of
\* timestamps[start_range.end : stop_range.begin]; the index map has the
\* length of that array and trimmed[k] = timestamps[index_map[k]] for every
\* k; neither function changes its arguments.
C11_TrimAgree == [][C11_InputsKept]_vars /\ []C11_TrimResult

\* two non-empty windows inside the stream have been trimmed
C11_Witness ==
    /\ trim_pc = "returned"
    /\ InsideStream(trim_ts, trim_pairs)
    /\ Len(trim_pairs) = 2
    /\ \A k \in 1..2 : trim_pairs[k][2][1] > trim_pairs[k][1][2]
    /\ Len(trimmed) >= 3

\* ------------------------------------------------------ claims about main
RowsOf(k) == {j \in 1..Len(summary_rows) : summary_rows[j].mea_file = k}

FinalRow(r) ==
    /\ r.status \in {"skipped", "failed", "success"}
    /\ r.status = "failed" => (r.error_type # None /\ r.error_message # None)

\* an iteration that ran to its end (no cancellation) appended one row for
\* its file after the rows that were there, and the loop is at the next name
C12_Iteration ==
    (main_pc = "loop" /\ file_idx < Len(files) /\ files[file_idx + 1] /\ interrupted' = None) =>
        /\ Len(summary_rows') = Len(summary_rows) + 1
        /\ SubSeq(summary_rows', 1, Len(summary_rows)) = summary_rows
        /\ summary_rows'[Len(summary_rows')].mea_file = file_idx
        /\ FinalRow(summary_rows'[Len(summary_rows')])
        /\ main_pc' = "loop"
        /\ file_idx' = file_idx + 1

C12_OneRowEach ==
    \A k \in 0..(Len(files) - 1) :
        IF k < file_idx /\ files[k + 1]
        THEN /\ Cardinality(RowsOf(k)) = 1
             /\ \A j \in RowsOf(k) : FinalRow(summary_rows[j])
        ELSE RowsOf(k) = {}

\* C12: an exception other than cancellation raised while one .h5 file is
\* processed is caught in that file's iteration: one row with status
\* "failed", the error type and the message is appended, the rows of the
\* other files stay as they were, and the loop goes on with the next file;
\* every .h5 file whose iteration was not cancelled has exactly one row,
\* with status skipped, failed or success, never "started".
C12_PerFileRows == [][C12_Iteration]_vars /\ []C12_OneRowEach

\* the run ended after a failed file was followed by another file's row
C12_Witness ==
    /\ main_pc = "done"
    /\ interrupted = None
    /\ \E j \in 1..(Len(summary_rows) - 1) :
          /\ summary_rows[j].status = "failed"
          /\ summary_rows[j].error_type = Some("TypeError")
          /\ summary_rows[j + 1].mea_file > summary_rows[j].mea_file

\* after a cancellation the loop position and the rows stay as they are
C13_Frozen == interrupted # None => (file_idx' = file_idx /\ summary_rows' = summary_rows)

C13_NoRowForInterrupted ==
    interrupted # None =>
        /\ file_idx = interrupted[1]
        /\ \A j \in 1..Len(summary_rows) : summary_rows[j].mea_file < interrupted[1]

C13_SummaryIfRows ==
    (interrupted # None /\ main_pc = "done") =>
        summary_written = (IF summary_rows = <<>> THEN None ELSE Some(summary_rows))

\* C13 as stated: after a KeyboardInterrupt during a file, the summary
\* holding every row collected before it is written.
C13_SummaryAlways ==
    (interrupted # None /\ main_pc = "done") => summary_written = Some(summary_rows)

\* C13, amended: after a KeyboardInterrupt during a file no further file is
\* started and no row is recorded for the interrupted file; the run goes on
\* to its end, where the summary holding every row collected before the
\* interruption is written if there is at least one such row, and no
\* summary is written if there is none.
C13_CancelFlush ==
    /\ [][C13_Frozen]_vars
    /\ [](C13_NoRowForInterrupted /\ C13_SummaryIfRows)
    /\ ((interrupted # None) ~> (main_pc = "done"))

\* a cancellation during the third file, after two rows, has been flushed
C13_Witness ==
    /\ interrupted = Some(2)
    /\ main_pc = "done"
    /\ Len(summary_rows) = 2
    /\ summary_written = Some(summary_rows)

\* --------------------------------------------- claims about the walk of fix
LastOf(s) == s[Len(s)]

\* the labels that are neither merge nor a split
OtherLabels == AnomalyKinds \ {"merge", "split_2", "split_3"}

C14_Step ==
    (fix_pc = "walk" /\ AnomalyGet(self_anomalies, fix_i) \in OtherLabels) =>
        IF d_e_index < Len(mea_ts)
        THEN /\ fix_pc' \in {"walk", "save"}
             /\ Appended = <<1, 1, 1>>
             /\ LastOf(corrected_ts') = mea_ts[d_e_index + 1]
             /\ LastOf(corrected_patterns') = fix_i
             /\ LastOf(correction_records').original_index = fix_i
             /\ LastOf(correction_records').corrected_timestamp = Some(mea_ts[d_e_index + 1])
             /\ d_e_index' = d_e_index + 1
        ELSE /\ fix_pc' = "except"
             /\ Appended = <<0, 0, 0>>
             /\ d_e_index' = d_e_index

\* C14: an entry labelled pause, unclassified or with any label other than
\* merge, split_2 and split_3 (overflow) is handled as an unlabelled one: it
\* raises only when the cursor has run past mea_ts, its corrected timestamp
\* is mea_ts at the cursor, one record is emitted and the cursor moves by 1.
C14_OtherLabels == [][C14_Step]_vars

\* a walk that went through over an entry labelled overflow and one
\* labelled unclassified
C14_Witness ==
    /\ fix_pc = "returned"
    /\ success
    /\ \E r \in 1..Len(correction_records) :
          /\ correction_records[r].anomaly_type = "overflow"
          /\ correction_records[r].corrected_timestamp # None
    /\ \E r \in 1..Len(correction_records) :
          /\ correction_records[r].anomaly_type = "unclassified"
          /\ correction_records[r].corrected_timestamp # None

\* the emitted entries whose pattern was read from index i or i + 1
EmittedFor(i) == {k \in 1..Len(corrected_patterns) : corrected_patterns[k] \in {i, i + 1}}

\* C15: for an entry labelled split_2 at index i (here the only label, so
\* that every other entry takes one reference timestamp), once the walk is
\* past entries i and i+1 exactly two records have been emitted for the two
\* entries and they moved the cursor by 1 in total: entry i+1 is not
\* emitted again.
C15_SplitTwoOnce ==
    \A i \in 0..(Len(arduino_ts) - 1) :
        (/\ fix_pc \in {"walk", "save", "returned"}
         /\ success
         /\ self_anomalies = <<<<i, "split_2">>>>
         /\ fix_i >= i + 2) =>
            /\ Cardinality(EmittedFor(i)) = 2
            /\ d_e_index = fix_i - 1

\* --------------------------------------- claims about find and the windows
\* the int32 interval array find works on
Diffs32(ts) == [k \in 1..(Len(ts) - 1) |-> ToInt32(NpDiff(ts)[k])]

\* C16: the stop table is matched first and a start candidate is dropped
\* when any index of its range is covered by a stop match: no start match
\* of find, returned or not, shares an index with any stop match.
C16_StartAvoidsStop ==
    /\ FindFinished =>
          \A s \in 1..Len(start_indices) : \A t \in 1..Len(stop_indices) :
              RangesDisjoint(start_indices[s], stop_indices[t])
    /\ find_status = "returned" =>
          \A s \in 1..Len(handshake_pairs) : \A t \in 1..Len(handshake_pairs) :
              RangesDisjoint(ReturnedStarts[s], ReturnedStops[t])

\* find returned on a stream in which a start signature also fits at a
\* place that reaches into a stop match
C16_Witness ==
    /\ find_status = "returned"
    /\ \E p \in 1..Len(start_sequences) :
       \E i \in 0..(Len(timestamps) - 1 - Len(start_sequences[p].seq)) :
       \E t \in 1..Len(stop_indices) :
          /\ MatchesAt(Diffs32(timestamps), start_sequences[p].seq, i, tolerance)
          /\ ~RangesDisjoint(<<i, i + Len(start_sequences[p].seq)>>, stop_indices[t])

\* ------------------------------------------- claims about the split branches
Splits == {"split_2", "split_3"}

\* how many entries after i a split label reads
SuccessorsRead(a) == IF a = "split_2" THEN 1 ELSE 2

\* C17: a split label on an entry without a valid predecessor (index 0, or
\* the cursor at 0) or without its successors (i+1 for split_2, i+2 for
\* split_3 beyond the arrays) is an error: the iteration takes the failure
\* path and emits nothing computed from the last elements, which index -1
\* would read.
C17_SplitNeedsNeighbours ==
    (/\ fix_pc = "walk"
     /\ AnomalyGet(self_anomalies, fix_i) \in Splits
     /\ \/ fix_i = 0
        \/ d_e_index = 0
        \/ fix_i + SuccessorsRead(AnomalyGet(self_anomalies, fix_i)) >= Len(arduino_ts)) =>
        /\ fix_pc' = "except"
        /\ \A r \in (Len(correction_records) + 1)..Len(correction_records') :
              \A m \in 1..Len(correction_records'[r].mea_indices_used) :
                  correction_records'[r].mea_indices_used[m] >= 0

C17_SplitGuarded == [][C17_SplitNeedsNeighbours]_vars

\* ------------------------------- claims about detect_anomalies: wrap, tail
\* the intervals with every wrapped (negative) one corrected by a full turn
CorrectedIntervals ==
    [k \in 1..Len(RawIntervals) |->
        IF RawIntervals[k] < 0 THEN RawIntervals[k] + Wrap ELSE RawIntervals[k]]

\* the outcome of the rule list at i when every interval the rules read
\* after the wrap test is the corrected one
CorrectedOutcome(i) ==
    LET D  == CorrectedIntervals
        n  == Len(D)
        dt == D[i + 1]
    IN IF RawIntervals[i + 1] < 0 THEN "overflow"
       ELSE IF AbsInt(dt - expected_diff) <= threshold THEN "normal"
       ELSE IF AbsInt(dt - 2 * expected_diff) <= threshold THEN "merge"
       ELSE IF AbsInt(D[i + 1] + (IF i + 1 < n THEN D[i + 2] ELSE 0) - expected_diff)
                   <= threshold
            THEN "split_2"
       ELSE IF AbsInt(D[i + 1] + (IF i + 1 < n THEN D[i + 2] ELSE 0)
                               + (IF i + 2 < n THEN D[i + 3] ELSE 0) - expected_diff)
                   <= threshold
            THEN "split_3"
       ELSE IF dt > pause_threshold THEN "pause"
       ELSE "unclassified"

\* C18: a comparison that reads an interval which is negative in the raw
\* sequence reads its corrected value (raw + 2^32), the split sums at i for
\* a wrapped interval at i+1 or i+2 included: every visited interval has the
\* outcome the rules give on the corrected intervals.
C18_SumsReadCorrected ==
    det_pc \in {"loop", "returned"} =>
        \A i \in 0..(det_i - 1) :
            IF CorrectedOutcome(i) = "normal"
            THEN RecordsAt(i) = {}
            ELSE \E k \in RecordsAt(i) : anomalies[k][2] = CorrectedOutcome(i)

\* --------------------------------------- claims about the windows of find
\* C19: for the pairs find returns, the index map of the trimmed stream is
\* strictly increasing and the windows of consecutive pairs neither overlap
\* nor nest: the stop of pair k begins no later than the start of pair k+1
\* ends.
C19_WindowsInOrder ==
    (trim_pc = "returned" /\ find_status = "returned") =>
        /\ \A k \in 1..(Len(index_map) - 1) : index_map[k] < index_map[k + 1]
        /\ \A k \in 1..(Len(trim_pairs) - 1) :
              trim_pairs[k][2][1] <= trim_pairs[k + 1][1][2]

\* C20: detect_anomalies labels interval i split_2 only when interval i+1
\* exists and split_3 only when interval i+2 exists, also at the tail where
\* the summed slice is cut short; so entries i+1 (and i+2) of the stream it
\* was given exist for every split label.
C20_SplitHasSuccessors ==
    det_pc \in {"loop", "returned"} =>
        \A k \in 1..Len(anomalies) :
            /\ anomalies[k][2] = "split_2" => anomalies[k][1] + 1 < Len(diffs)
            /\ anomalies[k][2] = "split_3" => anomalies[k][1] + 2 < Len(diffs)

\* a finished pass in which the last interval went through the split rules
\* on a slice cut short, and the interval before it is a two-way split
C20_Witness ==
    /\ det_pc = "returned"
    /\ Len(diffs) >= 2
    /\ \E k \in 1..Len(anomalies) : anomalies[k] = <<Len(diffs) - 2, "split_2">>
    /\ \E k \in 1..Len(anomalies) :
          /\ anomalies[k][1] = Len(diffs) - 1
          /\ anomalies[k][2] \in {"pause", "unclassified"}

\* ------------------------------------------------ inputs of the Y-line check
\* line-type codes: one that is not the Y code, and the Y code
LineTypeCodes == {1, 2}

\* pair lists as find returns them for a stream ts: ranges inside the
\* stream, each start ending before its stop begins, pairs in offset order
FoundPairLists(ts) ==
    {ps \in TrimPairLists :
        /\ InsideStream(ts, ps)
        /\ \A k \in 1..Len(ps) : PairOk(ps[k][1], ps[k][2])
        /\ \A k \in 1..(Len(ps) - 1) :
              /\ ps[k][1][1] < ps[k + 1][1][1]
              /\ ps[k][2][1] < ps[k + 1][2][1]}

\* main hands the same pairs to the Y-line check and to the trimmer, with
\* the line types and the timestamps of the same events
InitYline ==
    /\ MainIdle
    /\ FindIdle
    /\ DetIdle
    /\ FixIdle
    /\ \E n \in 0..MaxTrimLen :
          /\ trim_ts = TrimStream(n)
          /\ arduino_linetypes \in [1..n -> LineTypeCodes]
    /\ trim_pairs \in FoundPairLists(trim_ts)
    /\ yline_pairs = trim_pairs
    /\ byte_y = 2
    /\ trimmed_windows = <<>>
    /\ trimmed = <<>>
    /\ index_map = <<>>
    /\ trim_pc = "pending"
    /\ inspected = <<>>
    /\ findings = <<>>
    /\ yline_pc = "pending"

NextYline == FindYline \/ Trim

SpecYline == InitYline /\ [][NextYline]_vars

\* ------------------------------------------- claims about the Y-line check
\* the position in the trimmed stream of the first element pair k contributes
RECURSIVE FirstOfPair(_, _)
FirstOfPair(pairs, k) ==
    IF k = 1 THEN 1
    ELSE FirstOfPair(pairs, k - 1) + (pairs[k - 1][2][1] - pairs[k - 1][1][2])

FindingsOf(k) == {f \in 1..Len(findings) : findings[f].handshake_id = k}

\* C21: for each pair the event whose line type the Y-line check inspects
\* is the first event the trimmer keeps for that pair: the inspected index
\* is start_range.end, the first original index of the pair in the index
\* map, and a finding is recorded exactly when the line type of that event
\* is the Y code.
C21_InspectsFirstKept ==
    (yline_pc = "returned" /\ trim_pc = "returned") =>
        \A k \in 1..Len(yline_pairs) :
            /\ inspected[k] = yline_pairs[k][1][2]
            /\ inspected[k] = index_map[FirstOfPair(trim_pairs, k)]
            /\ (FindingsOf(k) # {}) <=> (arduino_linetypes[inspected[k] + 1] = byte_y)

\* ------------------------------------------- claims about main's call of fix
\* the row of a file whose iteration got as far as the call fixer.fix(...):
\* nothing before the call raises TypeError in this model, so the row is
\* either the success row or the row of the call's own TypeError
ReachedFixCall(row) == row.status = "success" \/ row.error_type = Some("TypeError")

\* C22: a .h5 file for which matching, loading, handshake detection,
\* trimming and classification completed, and whose walk raises nothing,
\* has its call of fix accepted by fix's parameter list and its summary row
\* has status "success".
C22_FixCallAccepted ==
    \A j \in 1..Len(summary_rows) :
        ReachedFixCall(summary_rows[j]) => summary_rows[j].status = "success"

====
